---- MODULE Spec2Model ----
(***************************************************************************)
(* Model of mcneel/merge-down-action (src/index.js).                       *)
(*                                                                         *)
(* Branch names and the configured prefix are sequences of one-character   *)
(* strings, so that the regular expressions of index.js and its string     *)
(* concatenations are modelled by what they do to the characters.          *)
(*                                                                         *)
(* An invocation is one workflow run executing run() for one pull_request  *)
(* event.  Every await of run() is one action: the remote call takes       *)
(* effect on the repository and the code up to the next await runs.        *)
(***************************************************************************)
EXTENDS Integers, Sequences, FiniteSets, TLC

\* ------------------------------------------------------------------------
\* Bounds of the model
\* ------------------------------------------------------------------------

\* workflow runs that share one repository
NumInvocations == 2

\* longest configured prefix enumerated for the resolver
MaxPrefixLen == 2

\* longest arbitrary branch name enumerated for the resolver
MaxNameLen == 4

\* longest digit run of a generated development / release branch name
MaxDigits == 2

Invs == 1..NumInvocations

\* ------------------------------------------------------------------------
\* Strings
\* ------------------------------------------------------------------------

\* the value of `null` (no character sequence equals it)
Null == <<"<null>">>

DigitChars == <<"0", "1", "2", "3", "4", "5", "6", "7", "8", "9">>

\* \d and [0-9] of a JavaScript regular expression without the u flag
IsDigit(c) == \E k \in 1..10 : DigitChars[k] = c

DigitValue(c) == (CHOOSE k \in 1..10 : DigitChars[k] = c) - 1

\* all sequences over the characters cs of length 0..n
StringsUpTo(cs, n) == UNION {[1..k -> cs] : k \in 0..n}

\* all sequences over the characters cs of length 1..n
StringsFrom1(cs, n) == UNION {[1..k -> cs] : k \in 1..n}

\* s.endsWith(t)
EndsWith(s, t) ==
  /\ Len(t) <= Len(s)
  /\ SubSeq(s, Len(s) - Len(t) + 1, Len(s)) = t

\* s.startsWith(t)
StartsWith(s, t) ==
  /\ Len(t) <= Len(s)
  /\ SubSeq(s, 1, Len(t)) = t

\* parseInt(s) of a non-empty string of decimal digits (exact below 2^53)
RECURSIVE ParseInt(_)
ParseInt(s) ==
  IF s = <<>> THEN 0
  ELSE 10 * ParseInt(SubSeq(s, 1, Len(s) - 1)) + DigitValue(s[Len(s)])

\* `${n}` of a non-negative integer n below 10^21: its shortest decimal form
RECURSIVE NumberToString(_)
NumberToString(n) ==
  IF n < 10 THEN <<DigitChars[n + 1]>>
  ELSE Append(NumberToString(n \div 10), DigitChars[(n % 10) + 1])

\* 2^53: from here on a JavaScript number holds only every second integer
TwoTo53 ==
  <<"9", "0", "0", "7", "1", "9", "9", "2", "5", "4", "7", "4", "0", "9", "9",
    "2">>

\* the digits without their leading zeros
RECURSIVE StripZeros(_)
StripZeros(d) ==
  IF Len(d) > 1 /\ d[1] = "0" THEN StripZeros(Tail(d)) ELSE d

\* a < b for numerals a and b without leading zeros
DigitsLess(a, b) ==
  \/ Len(a) < Len(b)
  \/ /\ Len(a) = Len(b)
     /\ \E k \in 1..Len(a) :
          /\ \A j \in 1..(k - 1) : a[j] = b[j]
          /\ DigitValue(a[k]) < DigitValue(b[k])

\* the numeral of n + 1 from the numeral of n
RECURSIVE DigitsSucc(_)
DigitsSucc(d) ==
  IF d = <<>> THEN <<"1">>
  ELSE IF d[Len(d)] = "9"
    THEN Append(DigitsSucc(SubSeq(d, 1, Len(d) - 1)), "0")
  ELSE Append(SubSeq(d, 1, Len(d) - 1), DigitChars[DigitValue(d[Len(d)]) + 2])

\* the numeral of n - 1 from the numeral of n >= 10
RECURSIVE DigitsPred(_)
DigitsPred(d) ==
  IF d[Len(d)] = "0"
    THEN Append(DigitsPred(SubSeq(d, 1, Len(d) - 1)), "9")
  ELSE Append(SubSeq(d, 1, Len(d) - 1), DigitChars[DigitValue(d[Len(d)])])

\* n mod 4 of a numeral of two digits or more
Mod4(d) == (10 * DigitValue(d[Len(d) - 1]) + DigitValue(d[Len(d)])) % 4

\* parseInt(s) for 2^53 <= s < 2^54: the nearest number; the numbers of this
\* range are the even integers, and an odd s lies halfway between two of
\* them and goes to the one with the even significand, a multiple of 4
ParseIntWide(z) ==
  IF DigitValue(z[Len(z)]) % 2 = 0 THEN z
  ELSE IF Mod4(DigitsPred(z)) = 0 THEN DigitsPred(z)
  ELSE DigitsSucc(z)

\* `${x + 1}` for a number x with 2^53 <= x < 2^54: x + 1 lies halfway
\* between x and x + 2 and is rounded to the multiple of 4
PlusOneWide(x) ==
  IF Mod4(x) = 0 THEN x ELSE DigitsSucc(DigitsSucc(x))

\* `${parseInt(d) + 1}` of a run of digits d below 2^54
NextMajor(d) ==
  LET z == StripZeros(d)
  IN IF DigitsLess(z, TwoTo53) THEN NumberToString(ParseInt(d) + 1)
     ELSE PlusOneWide(ParseIntWide(z))

\* length of the longest run of digits of s that starts at position i
RECURSIVE DigitRun(_, _)
DigitRun(s, i) ==
  IF i > Len(s) \/ ~IsDigit(s[i]) THEN 0 ELSE 1 + DigitRun(s, i + 1)

\* ------------------------------------------------------------------------
\* The branch patterns (index.js 13-16)
\* ------------------------------------------------------------------------

\* The prefix is spliced into the pattern source unescaped, so each of its
\* characters is a pattern atom.  Of the characters enumerated here "." is
\* the wildcard (any character but a line terminator; names hold none),
\* "$" is the end-of-input assertion, and every other one matches itself.
\* PrefixConsume is the position after the prefix atoms matched s from
\* position i on, or 0 when they do not match.
RECURSIVE PrefixConsume(_, _, _)
PrefixConsume(p, s, i) ==
  IF p = <<>> THEN i
  ELSE IF Head(p) = "$"
    THEN IF i = Len(s) + 1 THEN PrefixConsume(Tail(p), s, i) ELSE 0
  ELSE IF i > Len(s) THEN 0
  ELSE IF Head(p) = "." \/ Head(p) = s[i]
    THEN PrefixConsume(Tail(p), s, i + 1)
  ELSE 0

\* branch.match(develop_branch_pattern): the capture m[1], or Null.
\* ^<prefix>(\d+)\.x$ -- the greedy digit run is followed by a literal
\* ".", so the run it captures is the maximal one.
develop_branch_pattern(p, s) ==
  LET i == PrefixConsume(p, s, 1)
      n == IF i = 0 THEN 0 ELSE DigitRun(s, i)
  IN IF /\ i # 0
        /\ n >= 1
        /\ Len(s) = i + n + 1
        /\ s[i + n] = "."
        /\ s[i + n + 1] = "x"
     THEN SubSeq(s, i, i + n - 1)
     ELSE Null

\* branch.match(release_branch_pattern): the capture m[1], or Null.
\* ^<prefix>(\d+)\.\d+$
release_branch_pattern(p, s) ==
  LET i == PrefixConsume(p, s, 1)
      n == IF i = 0 THEN 0 ELSE DigitRun(s, i)
      k == IF i = 0 \/ n = 0 THEN 0 ELSE DigitRun(s, i + n + 1)
  IN IF /\ i # 0
        /\ n >= 1
        /\ i + n <= Len(s)
        /\ s[i + n] = "."
        /\ k >= 1
        /\ Len(s) = i + n + k
     THEN SubSeq(s, i, i + n - 1)
     ELSE Null

\* flow(branch) with branch_prefix = p
flow(p, branch) ==
  LET d == develop_branch_pattern(p, branch)
      r == release_branch_pattern(p, branch)
  IN IF d # Null THEN p \o NextMajor(d) \o <<".", "x">>
     ELSE IF r # Null THEN p \o r \o <<".", "x">>
     ELSE Null

\* branch.match(/-merge-[0-9]+\.([0-9]+|x)$/) !== null
MergeInfix == <<"-", "m", "e", "r", "g", "e", "-">>

\* the pattern without its release alternative: /-merge-[0-9]+\.x$/
IsMergeDownBranchDevelopOnly(s) ==
  \E i \in 1..Len(s) :
    LET t == SubSeq(s, i, Len(s))
        n == DigitRun(t, Len(MergeInfix) + 1)
        j == Len(MergeInfix) + n + 1
    IN /\ StartsWith(t, MergeInfix)
       /\ n >= 1
       /\ Len(t) = j + 1
       /\ t[j] = "."
       /\ t[j + 1] = "x"

IsMergeDownBranch(s) ==
  \E i \in 1..Len(s) :
    LET t == SubSeq(s, i, Len(s))
        n == DigitRun(t, Len(MergeInfix) + 1)
        j == Len(MergeInfix) + n + 1
        k == DigitRun(t, j + 1)
    IN /\ StartsWith(t, MergeInfix)
       /\ n >= 1
       /\ j <= Len(t)
       /\ t[j] = "."
       /\ \/ k >= 1 /\ Len(t) = j + k
          \/ Len(t) = j + 1 /\ t[j + 1] = "x"

\* ------------------------------------------------------------------------
\* State
\* ------------------------------------------------------------------------

VARIABLES
  branch_prefix,  \* core.getInput('branch-prefix')
  pull,           \* github.context.payload.pull_request of each invocation
  refs,           \* repository: names of the branches under refs/heads/
  pulls,          \* repository: the pull requests opened by invocations
  pc,             \* the await each invocation is at
  target,         \* run(): target
  new_branch,     \* run(): new_branch
  automerge,      \* run(): automerge
  new_pull,       \* run(): new_pull.number
  prid,           \* enablePullRequestAutomerge(): prid
  calls,          \* remote calls each invocation has made, with results
  log,            \* core.* and console.log output of each invocation
  status,         \* outcome of the workflow step
  failure         \* the message given to core.setFailed

vars == <<branch_prefix, pull, refs, pulls, pc, target, new_branch, automerge,
          new_pull, prid, calls, log, status, failure>>

\* Date.now() as decimal digits
Timestamps == {<<"1", "7">>, <<"1", "8">>}

Str_f == <<"f">>
Str_main == <<"m">>
Str_1_0 == <<"1", ".", "0">>
Str_1_x == <<"1", ".", "x">>
Str_9_x == <<"9", ".", "x">>
Str_r == <<"r", "-">>

\* the prefixes, base branches and head branches of the events run
EventPrefixes == {<<>>, Str_r}

EventBases ==
  {Str_main, Str_1_0, Str_1_x, Str_9_x, Str_r \o Str_1_0, Str_r \o Str_1_x}

EventHeads ==
  {Str_f, Str_f \o MergeInfix \o Str_1_0, Str_f \o MergeInfix \o Str_1_x,
   Str_f \o MergeInfix \o Str_r \o Str_1_x}

\* pull.number, pull.head.sha and pull.user.login of the event
EventNumber == 7
EventSha == "c0ffee"
EventLogin == "alice"

Event(b, h) ==
  [base_ref |-> b, head_ref |-> h, head_sha |-> EventSha,
   number |-> EventNumber, login |-> EventLogin]

\* the candidate name with its two parts exchanged
CandidateNameSwapped(branch, t) == t \o MergeInfix \o branch

\* branch + '-merge-' + target
CandidateName(branch, t) == branch \o MergeInfix \o t

\* a retry under the name that has just been refused
RetryNameUnchanged(branch, now, t) == branch \o MergeInfix \o t

\* `${branch}-${+Date.now()}-merge-${target}`
RetryName(branch, now, t) == branch \o <<"-">> \o now \o MergeInfix \o t

\* branches whose presence decides a remote call of the event
RefsOfInterest(p, b, h) ==
  LET t == flow(p, b)
  IN IF t = Null THEN {h}
     ELSE {h, t, CandidateName(h, t)}
            \cup {RetryName(h, now, t) : now \in Timestamps}

InitRun(starting) ==
  /\ pulls = {}
  /\ pc = [i \in Invs |-> IF i \in starting THEN "start" ELSE "idle"]
  /\ target = [i \in Invs |-> Null]
  /\ new_branch = [i \in Invs |-> Null]
  /\ automerge = [i \in Invs |-> FALSE]
  /\ new_pull = [i \in Invs |-> 0]
  /\ prid = [i \in Invs |-> Null]
  /\ calls = [i \in Invs |-> <<>>]
  /\ log = [i \in Invs |-> <<>>]
  /\ status = [i \in Invs |-> "running"]
  /\ failure = [i \in Invs |-> Null]

\* one workflow run for one event, on any repository
Init ==
  /\ branch_prefix \in EventPrefixes
  /\ \E b \in EventBases, h \in EventHeads :
       /\ pull = [i \in Invs |-> Event(b, h)]
       /\ \E existing \in SUBSET RefsOfInterest(branch_prefix, b, h) :
            refs = {b} \cup existing
  /\ InitRun({1})

\* ------------------------------------------------------------------------
\* Logging and remote-call bookkeeping
\* ------------------------------------------------------------------------

Msg(level, text, about) == [level |-> level, text |-> text, about |-> about]

Call(op, args, result) == [op |-> op, args |-> args, result |-> result]

\* result of a remote call that did not throw
Ok == "ok"

\* an outer catch that reports the error without failing the run
SetFailedOnlyReports(i, message) ==
  /\ status' = [status EXCEPT ![i] = "success"]
  /\ failure' = [failure EXCEPT ![i] = message]
  /\ pc' = [pc EXCEPT ![i] = "done"]

\* an outer catch that fails the run with a message of its own
SetFailedGenericMessage(i, message) ==
  /\ status' = [status EXCEPT ![i] = "failed"]
  /\ failure' = [failure EXCEPT ![i] = "merge-down failed"]
  /\ pc' = [pc EXCEPT ![i] = "done"]

\* core.setFailed(error.message) of the outer catch (index.js 179-181)
SetFailed(i, message) ==
  /\ status' = [status EXCEPT ![i] = "failed"]
  /\ failure' = [failure EXCEPT ![i] = message]
  /\ pc' = [pc EXCEPT ![i] = "done"]

\* a return that leaves the run's status open
ReturnLeavesStatus(i) ==
  /\ pc' = [pc EXCEPT ![i] = "done"]
  /\ UNCHANGED <<status, failure>>

\* run() returns without core.setFailed
Return(i) ==
  /\ status' = [status EXCEPT ![i] = "success"]
  /\ pc' = [pc EXCEPT ![i] = "done"]
  /\ UNCHANGED failure

\* ------------------------------------------------------------------------
\* run() (index.js 76-182)
\* ------------------------------------------------------------------------

\* a start that tests the head branch for cleanup before it looks at the
\* target
StartCleansUpFirst(i) ==
  /\ pc[i] = "start"
  /\ LET base_ref == pull[i].base_ref
         branch == pull[i].head_ref
         t == flow(branch_prefix, base_ref)
     IN /\ target' = [target EXCEPT ![i] = t]
        /\ IF IsMergeDownBranch(branch)
           THEN /\ log' = [log EXCEPT ![i] = @ \o
                    <<Msg("log", "branch: base_ref -> target", t),
                      Msg("log", "Cleaning up old merge-down branch", branch)>>]
                /\ pc' = [pc EXCEPT ![i] = "deleteRef"]
                /\ UNCHANGED <<status, failure>>
           ELSE IF t = Null
           THEN /\ log' = [log EXCEPT ![i] = @ \o
                    <<Msg("log", "branch: base_ref -> target", t),
                      Msg("warning",
                          "Base branch is not a release or development branch",
                          base_ref)>>]
                /\ Return(i)
           ELSE /\ log' = [log EXCEPT ![i] = @ \o
                    <<Msg("log", "branch: base_ref -> target", t)>>]
                /\ pc' = [pc EXCEPT ![i] = "getBranch"]
                /\ UNCHANGED <<status, failure>>
  /\ UNCHANGED <<branch_prefix, pull, refs, pulls, new_branch, automerge,
                 new_pull, prid, calls>>

\* lines 78-90: resolve the target, stop when there is none, and decide
\* whether the head branch is an old merge-down branch
Start(i) ==
  /\ pc[i] = "start"
  /\ LET base_ref == pull[i].base_ref
         branch == pull[i].head_ref
         t == flow(branch_prefix, base_ref)
     IN /\ target' = [target EXCEPT ![i] = t]
        /\ IF t = Null
           THEN /\ log' = [log EXCEPT ![i] = @ \o
                    <<Msg("log", "branch: base_ref -> target", t),
                      Msg("warning",
                          "Base branch is not a release or development branch",
                          base_ref)>>]
                /\ Return(i)
           ELSE IF IsMergeDownBranch(branch)
           THEN /\ log' = [log EXCEPT ![i] = @ \o
                    <<Msg("log", "branch: base_ref -> target", t),
                      Msg("log", "Cleaning up old merge-down branch", branch)>>]
                /\ pc' = [pc EXCEPT ![i] = "deleteRef"]
                /\ UNCHANGED <<status, failure>>
           ELSE /\ log' = [log EXCEPT ![i] = @ \o
                    <<Msg("log", "branch: base_ref -> target", t)>>]
                /\ pc' = [pc EXCEPT ![i] = "getBranch"]
                /\ UNCHANGED <<status, failure>>
  /\ UNCHANGED <<branch_prefix, pull, refs, pulls, new_branch, automerge,
                 new_pull, prid, calls>>

\* failures a remote call can end in besides the one its arguments force
ServerError == "Server Error"

\* lines 91-96: octokit.rest.git.deleteRef({ref: 'heads/' + branch}); the
\* workflow goes on to the target check whether or not the call throws
DeleteRef(i) ==
  /\ pc[i] = "deleteRef"
  /\ LET branch == pull[i].head_ref
     IN \E result \in (IF branch \in refs THEN {Ok}
                       ELSE {"Reference does not exist"}) \cup {ServerError} :
          /\ calls' = [calls EXCEPT ![i] =
               Append(@, Call("deleteRef", [ref |-> <<"heads/", branch>>], result))]
          /\ IF result = Ok
             THEN /\ refs' = refs \ {branch}
                  /\ UNCHANGED log
             ELSE /\ log' = [log EXCEPT ![i] = @ \o
                      <<Msg("error", result, <<>>),
                        Msg("warning", "Failed to delete old merge-down branch",
                            <<>>)>>]
                  /\ UNCHANGED refs
  /\ pc' = [pc EXCEPT ![i] = "getBranch"]
  /\ UNCHANGED <<branch_prefix, pull, pulls, target, new_branch, automerge,
                 new_pull, prid, status, failure>>

\* a catch of getBranch that warns and carries on instead of returning
GetBranchThrewCarriesOn(i, result) ==
  /\ new_branch' = [new_branch EXCEPT ![i] =
       pull[i].head_ref \o MergeInfix \o target[i]]
  /\ log' = [log EXCEPT ![i] = @ \o
       <<Msg("error", result, <<>>),
         Msg("warning", "Skipping merge-down for non-existant branch",
             target[i])>>]
  /\ pc' = [pc EXCEPT ![i] = "createRef"]
  /\ UNCHANGED <<status, failure>>

\* lines 102-105: the catch of getBranch -- warn and return
GetBranchThrew(i, result) ==
  /\ log' = [log EXCEPT ![i] = @ \o
       <<Msg("error", result, <<>>),
         Msg("warning", "Skipping merge-down for non-existant branch",
             target[i])>>]
  /\ Return(i)
  /\ UNCHANGED new_branch

\* lines 109-110: the candidate name is built and the first createRef is next
GetBranchReturned(i) ==
  /\ new_branch' = [new_branch EXCEPT ![i] =
       CandidateName(pull[i].head_ref, target[i])]
  /\ log' = [log EXCEPT ![i] =
       Append(@, Msg("log", "Creating new remote branch", new_branch'[i]))]
  /\ pc' = [pc EXCEPT ![i] = "createRef"]
  /\ UNCHANGED <<status, failure>>

\* lines 100-110: octokit.rest.repos.getBranch({branch: target}); a throw
\* ends the run with a warning, otherwise the candidate name is built
GetBranch(i) ==
  /\ pc[i] = "getBranch"
  /\ \E result \in (IF target[i] \in refs THEN {Ok}
                    ELSE {"Branch not found"}) \cup {ServerError} :
       /\ calls' = [calls EXCEPT ![i] =
            Append(@, Call("getBranch", [branch |-> target[i]], result))]
       /\ IF result = Ok THEN GetBranchReturned(i)
                         ELSE GetBranchThrew(i, result)
  /\ UNCHANGED <<branch_prefix, pull, refs, pulls, target, automerge,
                 new_pull, prid>>

\* outcomes of octokit.rest.git.createRef for the branch name: the
\* repository rejects a name it already holds
CreateRefResults(name) ==
  (IF name \in refs THEN {"Reference already exists"} ELSE {Ok})
    \cup {ServerError}

\* a continuation after createRef that goes straight to the pull request
AfterCreateRefSkipsMerge(i) ==
  /\ automerge' = [automerge EXCEPT ![i] = TRUE]
  /\ pc' = [pc EXCEPT ![i] = "createPull"]

\* lines 121-124, after the candidate branch was created
AfterCreateRef(i) ==
  /\ automerge' = [automerge EXCEPT ![i] = TRUE]
  /\ pc' = [pc EXCEPT ![i] = "merge"]

\* a catch of the first createRef that lets the error through
CreateRefThrewIsFatal(i, result) ==
  /\ SetFailed(i, result)
  /\ UNCHANGED <<new_branch, log, refs, automerge>>

\* a catch of the first createRef that goes on with the branch that exists
CreateRefThrewReusesBranch(i, result) ==
  /\ log' = [log EXCEPT ![i] = @ \o
       <<Msg("error", result, <<>>),
         Msg("warning", "Branch exists, creating instead", new_branch[i])>>]
  /\ automerge' = [automerge EXCEPT ![i] = TRUE]
  /\ pc' = [pc EXCEPT ![i] = "merge"]
  /\ UNCHANGED <<new_branch, refs, status, failure>>

\* lines 113-117: the catch of the first createRef -- the name gets a
\* timestamp and the second createRef is next
CreateRefThrew(i, result) ==
  /\ \E now \in Timestamps :
       new_branch' = [new_branch EXCEPT ![i] =
         RetryName(pull[i].head_ref, now, target[i])]
  /\ log' = [log EXCEPT ![i] = @ \o
       <<Msg("error", result, <<>>),
         Msg("warning", "Branch exists, creating instead", new_branch'[i])>>]
  /\ pc' = [pc EXCEPT ![i] = "createRefRetry"]
  /\ UNCHANGED <<refs, automerge, status, failure>>

\* lines 111-117: the first createRef; when it throws, the name gets a
\* timestamp and the second createRef is issued
CreateRef(i) ==
  /\ pc[i] = "createRef"
  /\ \E result \in CreateRefResults(new_branch[i]) :
       /\ calls' = [calls EXCEPT ![i] =
            Append(@, Call("createRef",
                           [ref |-> <<"refs/heads/", new_branch[i]>>,
                            sha |-> pull[i].head_sha], result))]
       /\ IF result = Ok
          THEN /\ refs' = refs \cup {new_branch[i]}
               /\ log' = [log EXCEPT ![i] =
                    Append(@, Msg("log", "Updating branch", new_branch[i]))]
               /\ AfterCreateRef(i)
               /\ UNCHANGED <<new_branch, status, failure>>
          ELSE CreateRefThrew(i, result)
  /\ UNCHANGED <<branch_prefix, pull, pulls, target, new_pull, prid>>

\* line 118: the second createRef, inside the catch of the first; a throw
\* reaches the outer catch
CreateRefRetry(i) ==
  /\ pc[i] = "createRefRetry"
  /\ \E result \in CreateRefResults(new_branch[i]) :
       /\ calls' = [calls EXCEPT ![i] =
            Append(@, Call("createRef",
                           [ref |-> <<"refs/heads/", new_branch[i]>>,
                            sha |-> pull[i].head_sha], result))]
       /\ IF result = Ok
          THEN /\ refs' = refs \cup {new_branch[i]}
               /\ log' = [log EXCEPT ![i] =
                    Append(@, Msg("log", "Updating branch", new_branch[i]))]
               /\ AfterCreateRef(i)
               /\ UNCHANGED <<status, failure>>
          ELSE /\ SetFailed(i, result)
               /\ UNCHANGED <<refs, log, automerge>>
  /\ UNCHANGED <<branch_prefix, pull, pulls, target, new_branch, new_pull,
                 prid>>

\* a catch of merge that warns but leaves automerge set
MergeThrewKeepsAutomerge(i, result) ==
  /\ log' = [log EXCEPT ![i] = @ \o
       <<Msg("error", result, <<>>),
         Msg("warning", "GitHub failed to merge", new_branch[i]),
         Msg("log", "Creating pull request to merge", new_branch[i])>>]
  /\ UNCHANGED automerge

\* lines 127-134: the catch of merge -- warn and give up auto-merge
MergeThrew(i, result) ==
  /\ log' = [log EXCEPT ![i] = @ \o
       <<Msg("error", result, <<>>),
         Msg("warning", "GitHub failed to merge", new_branch[i]),
         Msg("log", "Creating pull request to merge", new_branch[i])>>]
  /\ automerge' = [automerge EXCEPT ![i] = FALSE]

\* lines 125-146: octokit.rest.repos.merge({base: new_branch, head: target});
\* a throw clears automerge, and the pull request is prepared either way
Merge(i) ==
  /\ pc[i] = "merge"
  /\ \E result \in {Ok, "Merge conflict", ServerError} :
       /\ calls' = [calls EXCEPT ![i] =
            Append(@, Call("merge", [base |-> new_branch[i], head |-> target[i]],
                           result))]
       /\ IF result = Ok
          THEN /\ log' = [log EXCEPT ![i] =
                    Append(@, Msg("log", "Creating pull request to merge",
                                  new_branch[i]))]
               /\ UNCHANGED automerge
          ELSE MergeThrew(i, result)
  /\ pc' = [pc EXCEPT ![i] = "createPull"]
  /\ UNCHANGED <<branch_prefix, pull, refs, pulls, target, new_branch,
                 new_pull, prid, status, failure>>

\* the number the repository gives the next pull request
NextPullNumber == EventNumber + 1 + Cardinality(pulls)

\* an assignee taken from the new pull request, whose author is the token's
\* user
ActorOfNewPull(i) == "github-actions[bot]"

\* line 165: actor = pull.user.login, the author of the original pull request
Actor(i) == pull[i].login

\* lines 165-166: the assignee is the author of the original pull request
BeforeAssign(i) ==
  Msg("log", "Assigning pull request to", <<Actor(i)>>)

\* lines 147-161: octokit.rest.pulls.create({base: target, head: new_branch});
\* a throw reaches the outer catch; otherwise auto-merge is attempted or,
\* when the merge had failed, skipped
CreatePull(i) ==
  /\ pc[i] = "createPull"
  /\ \E result \in {Ok, "Validation Failed"} :
       /\ calls' = [calls EXCEPT ![i] =
            Append(@, Call("createPull",
                           [title |-> <<pull[i].head_ref, target[i]>>,
                            base |-> target[i], head |-> new_branch[i],
                            body |-> <<pull[i].number, pull[i].base_ref,
                                       target[i], new_branch[i]>>], result))]
       /\ IF result = Ok
          THEN /\ pulls' = pulls \cup
                    {[number |-> NextPullNumber, base |-> target[i],
                      head |-> new_branch[i], auto_merge |-> FALSE,
                      assignees |-> {}]}
               /\ new_pull' = [new_pull EXCEPT ![i] = NextPullNumber]
               /\ IF automerge[i]
                  THEN /\ log' = [log EXCEPT ![i] =
                            Append(@, Msg("info", "Created pull request",
                                          <<NextPullNumber>>))]
                       /\ pc' = [pc EXCEPT ![i] = "resolvePullRequestId"]
                  ELSE /\ log' = [log EXCEPT ![i] = @ \o
                            <<Msg("info", "Created pull request",
                                  <<NextPullNumber>>),
                              Msg("warning",
                                  "Skipping auto-merge because there are merge conflicts",
                                  <<>>),
                              BeforeAssign(i)>>]
                       /\ pc' = [pc EXCEPT ![i] = "updateAssignees"]
               /\ UNCHANGED <<status, failure>>
          ELSE /\ SetFailed(i, result)
               /\ UNCHANGED <<pulls, new_pull, log>>
  /\ UNCHANGED <<branch_prefix, pull, refs, target, new_branch, automerge,
                 prid>>

\* lines 154-158 and 165-166: the catch around enablePullRequestAutomerge
\* and the code that follows the try statement
AutomergeThrew(i, message) ==
  log' = [log EXCEPT ![i] = @ \o
    <<Msg("error", message, <<>>),
      Msg("warning", "Failed to enable auto-merge", <<>>),
      Msg("log", "Auto-merge enabled", <<>>),
      BeforeAssign(i)>>]

\* lines 158 and 165-166: enablePullRequestAutomerge returned
AutomergeReturned(i) ==
  log' = [log EXCEPT ![i] = @ \o
    <<Msg("log", "Auto-merge enabled", <<>>), BeforeAssign(i)>>]

\* a lookup that answers with the node id of the pull request of the event
NodeIdOfEvent(number) == <<"PR_", EventNumber>>

\* the opaque node id the repository has for a pull request number
NodeId(number) == <<"PR_", number>>

\* lines 37-50: the GetPullRequestId query for new_pull.number
ResolvePullRequestId(i) ==
  /\ pc[i] = "resolvePullRequestId"
  /\ \E result \in {Ok, "Could not resolve to a PullRequest"} :
       /\ calls' = [calls EXCEPT ![i] =
            Append(@, Call("resolvePullRequestId",
                           [pullRequestNumber |-> new_pull[i]], result))]
       /\ IF result = Ok
          THEN /\ prid' = [prid EXCEPT ![i] = NodeId(new_pull[i])]
               /\ pc' = [pc EXCEPT ![i] = "enableAutoMerge"]
               /\ UNCHANGED log
          ELSE /\ AutomergeThrew(i, result)
               /\ pc' = [pc EXCEPT ![i] = "updateAssignees"]
               /\ UNCHANGED prid
  /\ UNCHANGED <<branch_prefix, pull, refs, pulls, target, new_branch,
                 automerge, new_pull, status, failure>>

\* lines 53-73: the enablePullRequestAutoMerge mutation for prid
EnableAutoMerge(i) ==
  /\ pc[i] = "enableAutoMerge"
  /\ \E result \in {Ok, "Pull request is not in the correct state"} :
       /\ calls' = [calls EXCEPT ![i] =
            Append(@, Call("enableAutoMerge",
                           [pullRequestId |-> prid[i], mergeMethod |-> "MERGE"],
                           result))]
       /\ IF result = Ok
          THEN /\ pulls' = {IF NodeId(p.number) = prid[i]
                            THEN [p EXCEPT !.auto_merge = TRUE] ELSE p :
                            p \in pulls}
               /\ AutomergeReturned(i)
          ELSE /\ AutomergeThrew(i, result)
               /\ UNCHANGED pulls
  /\ pc' = [pc EXCEPT ![i] = "updateAssignees"]
  /\ UNCHANGED <<branch_prefix, pull, refs, target, new_branch, automerge,
                 new_pull, prid, status, failure>>

\* lines 172-177: octokit.rest.issues.update({issue_number: new_pull.number,
\* assignees: [actor]}); run() returns whether or not the call throws
UpdateAssignees(i) ==
  /\ pc[i] = "updateAssignees"
  /\ \E result \in {Ok, "Validation Failed"} :
       /\ calls' = [calls EXCEPT ![i] =
            Append(@, Call("updateAssignees",
                           [issue_number |-> new_pull[i],
                            assignees |-> <<Actor(i)>>], result))]
       /\ IF result = Ok
          THEN /\ pulls' = {IF p.number = new_pull[i]
                            THEN [p EXCEPT !.assignees = {Actor(i)}]
                            ELSE p : p \in pulls}
               /\ UNCHANGED log
          ELSE /\ log' = [log EXCEPT ![i] = @ \o
                    <<Msg("error", result, <<>>),
                      Msg("warning", "Failed to assign", <<new_pull[i]>>)>>]
               /\ UNCHANGED pulls
  /\ Return(i)
  /\ UNCHANGED <<branch_prefix, pull, refs, target, new_branch, automerge,
                 new_pull, prid>>

Next ==
  \E i \in Invs :
    \/ Start(i)
    \/ DeleteRef(i)
    \/ GetBranch(i)
    \/ CreateRef(i)
    \/ CreateRefRetry(i)
    \/ Merge(i)
    \/ CreatePull(i)
    \/ ResolvePullRequestId(i)
    \/ EnableAutoMerge(i)
    \/ UpdateAssignees(i)

Spec == Init /\ [][Next]_vars

\* one step of the workflow run i: run() up to its next await or its return
Step(i) ==
  \/ Start(i)
  \/ DeleteRef(i)
  \/ GetBranch(i)
  \/ CreateRef(i)
  \/ CreateRefRetry(i)
  \/ Merge(i)
  \/ CreatePull(i)
  \/ ResolvePullRequestId(i)
  \/ EnableAutoMerge(i)
  \/ UpdateAssignees(i)

\* every awaited call returns or throws in the end, so a run that can take a
\* step does take it
SpecLive == Init /\ [][Next]_vars /\ \A i \in Invs : WF_vars(Step(i))

\* every workflow run started at once for the same event, on a repository
\* that holds the head branch and the target branch
InitConcurrent ==
  /\ branch_prefix \in EventPrefixes
  /\ \E b \in {Str_1_0, Str_r \o Str_1_0},
        h \in {Str_f, Str_f \o MergeInfix \o Str_1_0} :
       /\ flow(branch_prefix, b) # Null
       /\ pull = [i \in Invs |-> Event(b, h)]
       /\ refs = {b, h, flow(branch_prefix, b)}
  /\ InitRun(Invs)

SpecConcurrent == InitConcurrent /\ [][Next]_vars

\* ------------------------------------------------------------------------
\* The resolver on its own: flow applied to enumerated names and prefixes
\* ------------------------------------------------------------------------

PrefixChars == {"r", ".", "$"}

NameChars == {"r", ".", "x", "$", "0", "9"}

InputDigits == {"0", "9"}

\* <prefix><digits>.x and <prefix><digits>.<digits> for the prefix p
GeneratedNames(p) ==
  LET ds == StringsFrom1(InputDigits, MaxDigits)
  IN {p \o d \o <<".", "x">> : d \in ds}
       \cup {p \o d[1] \o <<".">> \o d[2] : d \in ds \X ds}

\* major numbers from 2^53 on
WideMajors == {TwoTo53, DigitsSucc(TwoTo53), DigitsSucc(DigitsSucc(TwoTo53))}

\* <prefix><N>.x and <prefix><N>.0 for the prefix p and N from 2^53 on
WideNames(p) ==
  {p \o d \o <<".", "x">> : d \in WideMajors}
    \cup {p \o d \o <<".", "0">> : d \in WideMajors}

InitFlow ==
  /\ branch_prefix \in StringsUpTo(PrefixChars, MaxPrefixLen)
  /\ \E b \in StringsUpTo(NameChars, MaxNameLen)
                \cup GeneratedNames(branch_prefix)
                \cup WideNames(branch_prefix) :
       /\ pull = [i \in Invs |-> Event(b, Str_f)]
       /\ refs = {b}
  /\ InitRun({1})

NextFlow == \E i \in Invs : Start(i)

SpecFlow == InitFlow /\ [][NextFlow]_vars

\* ------------------------------------------------------------------------
\* Resolver claims
\* ------------------------------------------------------------------------

\* the invocation has computed its target
Resolved(i) == pc[i] \notin {"idle", "start"}

\* d is the decimal numeral of a non-negative integer
IsNumeral(d) ==
  /\ Len(d) >= 1
  /\ \A k \in 1..Len(d) : IsDigit(d[k])
  /\ Len(d) = 1 \/ d[1] # "0"

\* d is a non-empty sequence of digits
IsDigits(d) ==
  /\ Len(d) >= 1
  /\ \A k \in 1..Len(d) : IsDigit(d[k])

\* the numeral of N+1 from the numeral of N, by carrying
RECURSIVE NumeralSucc(_)
NumeralSucc(d) ==
  IF d = <<>> THEN <<"1">>
  ELSE IF d[Len(d)] = "9"
    THEN Append(NumeralSucc(SubSeq(d, 1, Len(d) - 1)), "0")
  ELSE Append(SubSeq(d, 1, Len(d) - 1), DigitChars[DigitValue(d[Len(d)]) + 2])

\* the part of b between the literal prefix p and a two-character ending
Middle(b, p) == SubSeq(b, Len(p) + 1, Len(b) - 2)

\* b is the literal text p, then the numeral of some N, then ".x"
IsDevelopName(b, p) ==
  /\ StartsWith(b, p)
  /\ Len(b) >= Len(p) + 3
  /\ EndsWith(b, <<".", "x">>)
  /\ IsNumeral(Middle(b, p))

\* b is the literal text p, then digits, then ".", then digits
IsReleaseName(b, p) ==
  /\ StartsWith(b, p)
  /\ \E k \in (Len(p) + 2)..(Len(b) - 1) :
       /\ b[k] = "."
       /\ IsDigits(SubSeq(b, Len(p) + 1, k - 1))
       /\ IsDigits(SubSeq(b, k + 1, Len(b)))

\* the digits between the literal prefix p and the first "." after it
ReleaseMajor(b, p) ==
  LET k == CHOOSE k \in (Len(p) + 2)..(Len(b) - 1) :
             b[k] = "." /\ IsDigits(SubSeq(b, Len(p) + 1, k - 1))
  IN SubSeq(b, Len(p) + 1, k - 1)

\* C8: for every prefix and every non-negative integer N,
\* resolve("<prefix><N>.x", prefix) is "<prefix><N+1>.x".
C8_DevelopResolves ==
  \A i \in Invs :
    Resolved(i) /\ IsDevelopName(pull[i].base_ref, branch_prefix)
      => target[i] = branch_prefix
                       \o NumeralSucc(Middle(pull[i].base_ref, branch_prefix))
                       \o <<".", "x">>

\* C9: for every prefix and all digit sequences N and M,
\* resolve("<prefix><N>.<M>", prefix) is "<prefix><N>.x", N as written.
C9_ReleaseResolves ==
  \A i \in Invs :
    Resolved(i) /\ IsReleaseName(pull[i].base_ref, branch_prefix)
      => target[i] = branch_prefix
                       \o ReleaseMajor(pull[i].base_ref, branch_prefix)
                       \o <<".", "x">>

\* C10: resolve returns a target only for a name that is exactly the literal
\* prefix followed by "<digits>.x" or "<digits>.<digits>".
C10_OnlyLiteralPrefixResolves ==
  \A i \in Invs :
    Resolved(i) /\ target[i] # Null
      => LET b == pull[i].base_ref
         IN \/ /\ StartsWith(b, branch_prefix)
               /\ Len(b) >= Len(branch_prefix) + 3
               /\ EndsWith(b, <<".", "x">>)
               /\ IsDigits(Middle(b, branch_prefix))
            \/ IsReleaseName(b, branch_prefix)

\* ------------------------------------------------------------------------
\* Orchestrator claims
\* ------------------------------------------------------------------------

Done(i) == pc[i] = "done"

\* positions in the call history of invocation i of the calls of op
Indices(i, op) == {k \in 1..Len(calls[i]) : calls[i][k].op = op}

Succeeded(i, op) == {k \in Indices(i, op) : calls[i][k].result = Ok}

Threw(i, op) == {k \in Indices(i, op) : calls[i][k].result # Ok}

Warned(i, text) ==
  \E k \in 1..Len(log[i]) :
    log[i][k].level = "warning" /\ log[i][k].text = text

\* both createRef attempts threw, or createPullRequest threw
FatalStepThrew(i) ==
  \/ Cardinality(Threw(i, "createRef")) = 2
  \/ Threw(i, "createPull") # {}

\* "<headBranch>-merge-<target>", spelled out
FirstName(i) ==
  pull[i].head_ref \o <<"-", "m", "e", "r", "g", "e", "-">> \o target[i]

\* "<headBranch>-<epochMillis>-merge-<target>", spelled out
IsSecondName(i, name) ==
  \E now \in Timestamps :
    /\ IsNumeral(now)
    /\ name = pull[i].head_ref \o <<"-">> \o now
                \o <<"-", "m", "e", "r", "g", "e", "-">> \o target[i]

\* the operations called by invocation i, in order
Ops(i) == [k \in 1..Len(calls[i]) |-> calls[i][k].op]

\* C1: a finished invocation is failed exactly when both createRef
\* attempts threw or createPullRequest threw; every other failure, and a
\* base branch outside the flow, ends in success.
C1_FailedIffFatalStep ==
  \A i \in Invs :
    Done(i) => status[i] = IF FatalStepThrew(i) THEN "failed" ELSE "success"

C1_Witness ==
  \E i \in Invs :
    /\ Done(i)
    /\ status[i] = "success"
    /\ Threw(i, "deleteRef") # {}
    /\ Threw(i, "createRef") # {}
    /\ Threw(i, "merge") # {}
    /\ Threw(i, "updateAssignees") # {}

\* C2 as stated: a finished invocation that reached candidate creation has
\* created exactly one candidate ref and at most one pull request.
C2_ExactlyOneCandidate ==
  \A i \in Invs :
    Done(i) /\ Indices(i, "createRef") # {}
      => /\ Cardinality(Succeeded(i, "createRef")) = 1
         /\ Cardinality(Succeeded(i, "createPull")) <= 1

\* C2 amended: a finished invocation that reached candidate creation has
\* created exactly one candidate ref, which the repository holds, unless both
\* createRef attempts threw, and then none; and at most one pull request.
C2_OneCandidateUnlessBothThrew ==
  \A i \in Invs :
    Done(i) /\ Indices(i, "createRef") # {}
      => /\ Cardinality(Succeeded(i, "createRef"))
              = IF Cardinality(Threw(i, "createRef")) = 2 THEN 0 ELSE 1
         /\ \A k \in Succeeded(i, "createRef") :
              calls[i][k].args.ref[2] \in refs
         /\ Cardinality(Indices(i, "createPull")) <= 1
         /\ Cardinality({p \in pulls : p.number = new_pull[i]})
              = Cardinality(Succeeded(i, "createPull"))

C2_Witness ==
  \E i \in Invs :
    /\ Done(i)
    /\ Cardinality(Succeeded(i, "createRef")) = 1
    /\ Cardinality(Threw(i, "createRef")) = 1
    /\ Cardinality(Succeeded(i, "createPull")) = 1

\* C3: when the first createRef (for "<head>-merge-<target>") throws, the
\* invocation is not failed but waits on one more createRef, for
\* "<head>-<millis>-merge-<target>" and the same sha; once that one succeeded,
\* merge has the second name as base and the pull request has it as head.
\* No invocation calls createRef more than twice.
C3_CollisionRetry ==
  \A i \in Invs :
    LET cr == Indices(i, "createRef")
        k1 == CHOOSE k \in cr : \A j \in cr : k <= j
        n == Len(calls[i])
    IN /\ Cardinality(cr) <= 2
       /\ \A k \in cr : calls[i][k].args.sha = pull[i].head_sha
       /\ cr # {} =>
            /\ calls[i][k1].args.ref = <<"refs/heads/", FirstName(i)>>
            /\ calls[i][k1].result = Ok => Cardinality(cr) = 1
            /\ calls[i][k1].result # Ok =>
                 /\ n = k1 => pc[i] = "createRefRetry" /\ status[i] = "running"
                 /\ n > k1 =>
                      /\ cr = {k1, k1 + 1}
                      /\ calls[i][k1 + 1].args.ref[1] = "refs/heads/"
                      /\ IsSecondName(i, calls[i][k1 + 1].args.ref[2])
                      /\ calls[i][k1 + 1].result = Ok =>
                           /\ \A m \in Indices(i, "merge") :
                                calls[i][m].args.base
                                  = calls[i][k1 + 1].args.ref[2]
                           /\ \A m \in Indices(i, "createPull") :
                                calls[i][m].args.head
                                  = calls[i][k1 + 1].args.ref[2]

C3_Witness ==
  \E i \in Invs :
    /\ Done(i)
    /\ status[i] = "success"
    /\ \E k \in Threw(i, "createRef") :
         calls[i][k].result = "Reference already exists"
    /\ Succeeded(i, "createRef") # {}
    /\ \E p \in pulls : p.number = new_pull[i] /\ IsSecondName(i, p.head)

\* C4 as stated: whenever merge threw, the pull request is still created,
\* auto-merge is never attempted, a warning is emitted and the run ends
\* in success.
C4_MergeFailureEndsInSuccess ==
  \A i \in Invs :
    Done(i) /\ Threw(i, "merge") # {}
      => /\ Succeeded(i, "createPull") # {}
         /\ Indices(i, "resolvePullRequestId") = {}
         /\ Indices(i, "enableAutoMerge") = {}
         /\ Warned(i, "GitHub failed to merge")
         /\ status[i] = "success"

\* C4 amended: whenever merge threw, a warning is emitted and auto-merge is
\* never attempted; createPullRequest is still called with base = target
\* and head = candidate, and the run ends in success unless that call
\* throws.  Auto-merge is attempted exactly when merge succeeded and the
\* pull request was created.
C4_MergeFailureDegrades ==
  \A i \in Invs :
    /\ Threw(i, "merge") # {} =>
         /\ Warned(i, "GitHub failed to merge")
         /\ Indices(i, "resolvePullRequestId") = {}
         /\ Indices(i, "enableAutoMerge") = {}
    /\ Done(i) /\ Threw(i, "merge") # {} =>
         /\ Cardinality(Indices(i, "createPull")) = 1
         /\ \A k \in Indices(i, "createPull") :
              /\ calls[i][k].args.base = target[i]
              /\ calls[i][k].args.head = new_branch[i]
         /\ status[i] = "success" <=> Succeeded(i, "createPull") # {}
         /\ Succeeded(i, "createPull") # {} =>
              Warned(i, "Skipping auto-merge because there are merge conflicts")
    /\ Done(i) =>
         (Indices(i, "resolvePullRequestId") # {}
            <=> Succeeded(i, "merge") # {} /\ Succeeded(i, "createPull") # {})

C4_Witness ==
  \E i \in Invs :
    /\ Done(i)
    /\ \E k \in Threw(i, "merge") : calls[i][k].result = "Merge conflict"
    /\ \E p \in pulls :
         p.number = new_pull[i] /\ p.base = target[i] /\ ~p.auto_merge
    /\ status[i] = "success"

\* C5: whenever getBranch for the target threw, the invocation makes no
\* further remote call, has emitted a warning, and ends in success.
C5_MissingTargetStops ==
  \A i \in Invs :
    Threw(i, "getBranch") # {}
      => /\ Done(i)
         /\ status[i] = "success"
         /\ Warned(i, "Skipping merge-down for non-existant branch")
         /\ calls[i][Len(calls[i])].op = "getBranch"
         /\ \A op \in {"createRef", "merge", "createPull",
                       "resolvePullRequestId", "enableAutoMerge",
                       "updateAssignees"} : Indices(i, op) = {}
         /\ new_pull[i] = 0

C5_Witness ==
  \E i \in Invs :
    /\ Done(i)
    /\ target[i] # Null
    /\ target[i] \notin refs
    /\ \E k \in Threw(i, "getBranch") : calls[i][k].result = "Branch not found"

EndsInMergeVersion(h) ==
  \E a \in 1..Len(h), b \in 1..Len(h) :
    /\ a + 7 < b
    /\ SubSeq(h, a, a + 6) = <<"-", "m", "e", "r", "g", "e", "-">>
    /\ IsDigits(SubSeq(h, a + 7, b - 1))
    /\ h[b] = "."
    /\ \/ IsDigits(SubSeq(h, b + 1, Len(h)))
       \/ SubSeq(h, b + 1, Len(h)) = <<"x">>

\* C7: deleteRef is called, once, first, and on the head branch's own ref,
\* exactly when the base resolves to a target and the head branch name ends
\* in "-merge-<digits>.<digits>" or "-merge-<digits>.x"; whether or not it
\* throws, the invocation goes on to getBranch, and its final status is
\* decided by the later calls alone.
C7_StaleCleanup ==
  \A i \in Invs :
    Resolved(i) =>
      LET dr == Indices(i, "deleteRef")
          expected == target[i] # Null /\ EndsInMergeVersion(pull[i].head_ref)
      IN /\ pc[i] = "deleteRef" => expected /\ calls[i] = <<>>
         /\ pc[i] # "deleteRef" => (dr # {} <=> expected)
         /\ dr \subseteq {1}
         /\ \A k \in dr : calls[i][k].args.ref = <<"heads/", pull[i].head_ref>>
         /\ dr # {} /\ Len(calls[i]) = 1 =>
              /\ pc[i] = "getBranch"
              /\ status[i] = "running"
              /\ new_branch[i] = Null
         /\ dr # {} /\ Len(calls[i]) > 1 => calls[i][2].op = "getBranch"
         /\ Done(i) /\ dr # {} =>
              /\ Len(calls[i]) > 1
              /\ status[i] = IF FatalStepThrew(i) THEN "failed" ELSE "success"

C7_Witness ==
  \E i \in Invs :
    /\ Done(i)
    /\ Threw(i, "deleteRef") # {}
    /\ Succeeded(i, "updateAssignees") # {}
    /\ status[i] = "success"

\* ------------------------------------------------------------------------
\* Logging, naming and ordering claims
\* ------------------------------------------------------------------------

\* invocation i has written the message text at the level
Logged(i, level, text) ==
  \E k \in 1..Len(log[i]) : log[i][k].level = level /\ log[i][k].text = text

\* C11: "Auto-merge enabled" is logged only by an invocation in which both
\* resolvePullRequestId and enableAutoMerge succeeded; when either threw, the
\* invocation has the failure warning and no "Auto-merge enabled" message.
C11_EnabledLoggedOnlyOnSuccess ==
  \A i \in Invs :
    /\ Logged(i, "log", "Auto-merge enabled") =>
         /\ Succeeded(i, "resolvePullRequestId") # {}
         /\ Succeeded(i, "enableAutoMerge") # {}
    /\ Threw(i, "resolvePullRequestId") \cup Threw(i, "enableAutoMerge") # {} =>
         /\ Warned(i, "Failed to enable auto-merge")
         /\ ~Logged(i, "log", "Auto-merge enabled")

\* C12: for every prefix, head branch and resolved target, both candidate
\* names the orchestrator generates match the pattern that the cleanup step
\* tests the head branch with.
C12_CandidateNamesAreStale ==
  \A i \in Invs :
    new_branch[i] # Null => IsMergeDownBranch(new_branch[i])


\* s is an initial part of t
IsPrefix(s, t) ==
  /\ Len(s) <= Len(t)
  /\ \A k \in 1..Len(s) : s[k] = t[k]

\* the calls up to the pull request, with and without the optional ones
CallsToCreatePull ==
  {d \o <<"getBranch", "createRef">> \o r \o <<"merge", "createPull">> :
     d \in {<<>>, <<"deleteRef">>}, r \in {<<>>, <<"createRef">>}}

\* at most one call of each operation, at most two of createRef
CallMultiplicity(i) ==
  \A op \in {calls[i][k].op : k \in 1..Len(calls[i])} :
    Cardinality(Indices(i, op)) <= IF op = "createRef" THEN 2 ELSE 1

\* C13 as stated: the calls of an invocation are an initial part of
\* deleteRef (optional), getBranch, createRef, createRef (optional), merge,
\* createPull, resolvePullRequestId, enableAutoMerge, updateAssignees, with
\* each operation called at most once and createRef at most twice.
C13_CallsArePrefixOfFullSequence ==
  \A i \in Invs :
    /\ \E s \in CallsToCreatePull :
         IsPrefix(Ops(i), s \o <<"resolvePullRequestId", "enableAutoMerge",
                                 "updateAssignees">>)
    /\ CallMultiplicity(i)

\* C13 amended: the same, except that the two auto-merge calls are optional
\* too: both are left out after a failed merge and enableAutoMerge is left
\* out after a failed resolvePullRequestId, and updateAssignees follows.
C13_CallsArePrefixWithOptionalAutomerge ==
  \A i \in Invs :
    /\ \E s \in CallsToCreatePull :
         \E a \in {<<>>, <<"resolvePullRequestId">>,
                   <<"resolvePullRequestId", "enableAutoMerge">>} :
           /\ IsPrefix(Ops(i), s \o a \o <<"updateAssignees">>)
           /\ Indices(i, "updateAssignees") # {} =>
                /\ a = <<>> <=> Threw(i, "merge") # {}
                /\ a = <<"resolvePullRequestId">>
                     <=> Threw(i, "resolvePullRequestId") # {}
    /\ CallMultiplicity(i)

C13_Witness ==
  \E i \in Invs :
    /\ Done(i)
    /\ Ops(i) = <<"deleteRef", "getBranch", "createRef", "createRef", "merge",
                  "createPull", "resolvePullRequestId", "updateAssignees">>


\* how many warnings of the auto-merge step invocation i has written
AutomergeWarnings(i) ==
  Cardinality({k \in 1..Len(log[i]) :
    /\ log[i][k].level = "warning"
    /\ log[i][k].text \in
         {"Failed to enable auto-merge",
          "Skipping auto-merge because there are merge conflicts"}})

\* C14: enableAutoMerge is called only directly after a successful
\* resolvePullRequestId for the pull request this invocation created, with
\* that pull request's node id and merge method MERGE; neither call is made
\* twice; and when either threw there is exactly one warning of the
\* auto-merge step, the run is not failed, and updateAssignees is next.
C14_AutomergeProtocol ==
  \A i \in Invs :
    /\ Cardinality(Indices(i, "resolvePullRequestId")) <= 1
    /\ Cardinality(Indices(i, "enableAutoMerge")) <= 1
    /\ \A k \in Indices(i, "resolvePullRequestId") :
         /\ calls[i][k].args.pullRequestNumber = new_pull[i]
         /\ \E p \in pulls : p.number = new_pull[i] /\ p.head = new_branch[i]
    /\ \A k \in Indices(i, "enableAutoMerge") :
         /\ k - 1 \in Succeeded(i, "resolvePullRequestId")
         /\ calls[i][k].args.pullRequestId = <<"PR_", new_pull[i]>>
         /\ calls[i][k].args.mergeMethod = "MERGE"
    /\ Threw(i, "resolvePullRequestId") \cup Threw(i, "enableAutoMerge") # {} =>
         /\ AutomergeWarnings(i) = 1
         /\ Warned(i, "Failed to enable auto-merge")
         /\ status[i] # "failed"
         /\ pc[i] \in {"updateAssignees", "done"}
         /\ Done(i) => Indices(i, "updateAssignees") # {}

C14_Witness ==
  \E i \in Invs :
    /\ Done(i)
    /\ Succeeded(i, "resolvePullRequestId") # {}
    /\ Threw(i, "enableAutoMerge") # {}
    /\ Indices(i, "updateAssignees") # {}
    /\ new_pull[i] # EventNumber


Warnings(i) ==
  Cardinality({k \in 1..Len(log[i]) : log[i][k].level = "warning"})

\* C16: an invocation whose base branch has no target makes no remote call,
\* whatever its head branch is called, writes one warning and ends in
\* success as soon as the resolver has answered.
C16_NotInFlowTouchesNothing ==
  \A i \in Invs :
    Resolved(i) /\ flow(branch_prefix, pull[i].base_ref) = Null =>
      /\ calls[i] = <<>>
      /\ Warnings(i) = 1
      /\ Warned(i, "Base branch is not a release or development branch")
      /\ Done(i)
      /\ status[i] = "success"
      /\ new_branch[i] = Null
      /\ new_pull[i] = 0

\* the head branch is an old merge-down branch that the repository holds
C16_Witness ==
  \E i \in Invs :
    /\ Done(i)
    /\ target[i] = Null
    /\ pull[i].head_ref = Str_f \o MergeInfix \o Str_1_x
    /\ pull[i].head_ref \in refs


\* C17: a failed invocation has stopped at the call that threw: that call is
\* its last one and is the second createRef or createPull, the failure
\* reason is that call's error message, and the invocation has created no
\* pull request; nothing follows a thrown second createRef or a thrown
\* createPull.
C17_FatalFailureAborts ==
  \A i \in Invs :
    LET n == Len(calls[i])
    IN /\ status[i] = "failed" =>
            /\ Done(i)
            /\ n > 0
            /\ calls[i][n].result # Ok
            /\ \/ calls[i][n].op = "createPull"
               \/ /\ calls[i][n].op = "createRef"
                  /\ Cardinality(Threw(i, "createRef")) = 2
            /\ failure[i] = calls[i][n].result
            /\ Succeeded(i, "createPull") = {}
            /\ new_pull[i] = 0
            /\ \A p \in pulls : p.head # new_branch[i]
       /\ FatalStepThrew(i) =>
            /\ status[i] = "failed"
            /\ \A k \in Threw(i, "createPull") : k = n
            /\ Cardinality(Threw(i, "createRef")) = 2 =>
                 \A op \in {"merge", "createPull", "resolvePullRequestId",
                            "enableAutoMerge", "updateAssignees"} :
                   Indices(i, op) = {}
            /\ \A op \in {"resolvePullRequestId", "enableAutoMerge",
                          "updateAssignees"} : Indices(i, op) = {}

\* one run failed at the second createRef, with the repository's message
C17_Witness ==
  \E i \in Invs :
    /\ status[i] = "failed"
    /\ Cardinality(Threw(i, "createRef")) = 2
    /\ failure[i] = "Reference already exists"


\* ------------------------------------------------------------------------
\* Concurrent invocations
\* ------------------------------------------------------------------------

\* the branch names invocation i has created itself
CreatedBy(i) == {calls[i][k].args.ref[2] : k \in Succeeded(i, "createRef")}

\* C18: with every invocation working on the same head branch and target, no
\* two pull requests have the same head branch; an invocation that calls
\* createPull does so for a branch that it created itself and that no other
\* invocation created; and an invocation whose second createRef met an
\* existing name is failed and has called neither merge nor createPull.
C18_ConcurrentCandidatesDistinct ==
  /\ \A p, q \in pulls : p.head = q.head => p = q
  /\ \A i, j \in Invs :
       i # j => CreatedBy(i) \cap CreatedBy(j) = {}
  /\ \A i \in Invs :
       /\ \A k \in Indices(i, "createPull") :
            /\ calls[i][k].args.head \in CreatedBy(i)
            /\ \A j \in Invs \ {i} :
                 \A l \in Indices(j, "createPull") :
                   calls[j][l].args.head # calls[i][k].args.head
       /\ \A k \in Threw(i, "createRef") :
            /\ k - 1 \in Threw(i, "createRef")
            /\ calls[i][k].result = "Reference already exists"
            => /\ status[i] = "failed"
               /\ Indices(i, "merge") = {}
               /\ Indices(i, "createPull") = {}

\* two invocations took the same timestamp: one has its pull request on the
\* timestamped branch and the other failed on that name
C18_Witness ==
  \E i, j \in Invs :
    /\ i # j
    /\ pull[i].head_ref = pull[j].head_ref
    /\ target[i] = target[j]
    /\ \E p \in pulls : p.number = new_pull[i] /\ p.head = new_branch[i]
    /\ Cardinality(Threw(i, "createRef")) = 1
    /\ new_branch[j] = new_branch[i]
    /\ status[j] = "failed"
    /\ failure[j] = "Reference already exists"


\* ------------------------------------------------------------------------
\* Direction of the flow
\* ------------------------------------------------------------------------

\* C19: whenever the base branch b of an invocation has a target t, t is
\* another name than b, and t has a target of its own, which is a third
\* name.
C19_FlowMovesForward ==
  \A i \in Invs :
    Resolved(i) /\ target[i] # Null =>
      /\ target[i] # pull[i].base_ref
      /\ develop_branch_pattern(branch_prefix, target[i]) # Null
      /\ flow(branch_prefix, target[i]) \notin {Null, target[i]}


\* ------------------------------------------------------------------------
\* Termination
\* ------------------------------------------------------------------------

\* C20: when every call returns, a started invocation ends, with status
\* success or failed; no invocation makes more than nine remote calls; and an
\* invocation that has ended makes no further call and keeps its status.
C20_Termination ==
  /\ \A i \in Invs :
       (pc[i] = "start") ~> (Done(i) /\ status[i] \in {"success", "failed"})
  /\ [](\A i \in Invs :
          /\ Len(calls[i]) <= 9
          /\ Done(i) <=> status[i] # "running")
  /\ [][\A i \in Invs :
          Done(i) => /\ calls'[i] = calls[i]
                     /\ pc'[i] = pc[i]
                     /\ status'[i] = status[i]]_vars

\* an invocation has ended after nine remote calls
C20_Witness ==
  \E i \in Invs : Done(i) /\ Len(calls[i]) = 9

====
